---- MODULE Spec2Model ----
(***************************************************************************)
(* Model of scripts/auras.mjs: the updateToken hook handler that keeps the *)
(* derived effects of aura source effects in step with token movement,     *)
(* dispatching every mutation as a query to the active GM.                 *)
(* Spec is the handler on a scene of two actors; SpecThreeActors,          *)
(* SpecNoActor and SpecRadius run it on other scenes; SpecSheet is the     *)
(* aura checkbox of the effect configuration sheet and the disposition of  *)
(* a pair of tokens.                                                       *)
(***************************************************************************)
EXTENDS Integers, Sequences, FiniteSets, TLC

\* ------------------------------------------------------------- bounds
MaxPos == 2          \* token x positions are 0..MaxPos
MaxSegs == 2         \* a movement has at most MaxSegs segments
MaxInv == 2          \* handler invocations in progress at once
MaxMoves == 2        \* token updates per behaviour
MaxDup == 2          \* derived effects of one origin one actor can hold
MaxGMChanges == 1    \* changes of the active GM per behaviour
MaxToggles == 3      \* changes of the aura checkbox of one effect document
MaxRadius == 1       \* an aura's radius is 0..MaxRadius
MaxEdits == 1        \* aura source effects whose radius is edited

\* ------------------------------------------------------------- the scene
None == "none"
Undefined == "undefined"

Users == {"u1", "u2"}
Tokens == {"t1", "t2", "t3"}
\* token.parent.tokens in collection order
SceneTokens == <<"t1", "t2", "t3">>
Actors == {"a1", "a2", "a3"}
\* token.actor of a token that has no actor
NoActor == "null"
AuraEffects == {"e1", "e2", "e3", "e4"}

\* token.disposition (-1 hostile, 0 neutral, 1 friendly)
TokenDisposition(t) == IF t = "t2" THEN -1 ELSE 1
\* actor.appliedEffects.filter(e => e.type === "auras.aura"), in order
SourceEffects(a) ==
    CASE a = "a1" -> <<"e1">>
      [] a = "a2" -> <<"e2", "e3", "e4">>
      [] OTHER    -> <<>>
\* effect.system.distance of each aura source effect at the start; e3 has a
\* zero radius
StartRadius == [e \in AuraEffects |-> IF e = "e3" THEN 0 ELSE 1]
\* the actor that carries aura source effect e
OwnerOf(e) == IF e = "e1" THEN "a1" ELSE "a2"

Invs == 1..MaxInv

\* effect documents open in a configuration sheet
Docs == {"d1", "d2"}
\* the two tokens of a Pass B scan: the one that moved and the other
Pair == {"token", "sourceToken"}

VARIABLES
    pos,          \* pos[t]: rendered position of token t
    dest,         \* dest[t]: document position of token t (the accepted update)
    movement,     \* movement[t]: segment number `no` of `of` of t's movement
    mover,        \* mover[t]: the user who initiated t's movement
    derived,      \* derived effects: <<origin, actor, k>>
    activeGM,     \* game.users.activeGM, or None
    seenWarning,  \* seenWarning[u]: the module-level latch of user u's client
    warnings,     \* warnings[u]: ui.notifications.warn calls on u's client
    inv,          \* inv[i]: the handler invocation in slot i
    net,          \* queries dispatched and not yet answered
    nMoves,       \* token updates so far
    nGMChanges,   \* active GM changes so far
    lastDone,     \* the token whose handler last ran to its end, no token moved since
    hooks,        \* updateToken hook calls not yet run on the other users' clients
    tokenActor,   \* tokenActor[t]: token.actor of token t, or NoActor
    auraRadius,   \* auraRadius[e]: effect.system.distance of aura source effect e
    docType,      \* docType[d]: the type of effect document d
    docFlag,      \* docFlag[d]: flags.auras.originalType of d, or Undefined
    docWas,       \* docWas[d]: the types d had before its last toggles
    effectType,   \* effectType[d]: the type of the effect data derived from d
    tokDisp,      \* tokDisp[p]: token.disposition of the token and the source
    effDisp       \* effDisp[p]: the disposition computed when p is the mover

\* the state the handler works on
handlerVars == <<pos, dest, movement, mover, derived, activeGM, seenWarning,
                 warnings, inv, net, nMoves, nGMChanges, lastDone, hooks>>
\* the scene's documents, which the handler only reads
sceneVars == <<tokenActor, auraRadius>>
\* the effect configuration sheet and the disposition of a pair of tokens
sheetVars == <<docType, docFlag, docWas, effectType, tokDisp, effDisp>>

vars == <<handlerVars, sceneVars, sheetVars>>

\* token.actor
ActorOf(t) == tokenActor[t]
\* effect.system of each aura source effect
System(e) ==
    [distance |-> auraRadius[e],
     disposition |-> IF e = "e2" THEN -1 ELSE 0]

Abs(n) == IF n < 0 THEN -n ELSE n

SeqToSet(s) == {s[k] : k \in 1..Len(s)}

\* ------------------------------------------------------------- helpers.mjs
\* getTokenToTokenDistance(token, sourceToken, {collisionTypes})
getTokenToTokenDistance(a, b) == Abs(pos[a] - pos[b])

\* getNearbyTokens(token, radius, {disposition, collisionTypes})
getNearbyTokens(token, radius, disposition) ==
    {t \in Tokens :
        /\ getTokenToTokenDistance(token, t) <= radius
        /\ \/ disposition = 0
           \/ TokenDisposition(token) * TokenDisposition(t) = disposition}

\* isFinalMovementComplete(token)
isFinalMovementComplete(token) == movement[token].no = movement[token].of

\* ------------------------------------------------------------- effects
\* the uuid read through ?.uuid when find() returned nothing
NoUuid == <<Undefined, Undefined, 0>>

HeldFrom(D, a, origin) == {d \in D : d[1] = origin /\ d[2] = a}

\* a.effects.find(e => e.origin === origin)?.uuid: the first derived effect
FindDerived(a, origin) ==
    IF HeldFrom(derived, a, origin) = {} THEN NoUuid
    ELSE CHOOSE d \in HeldFrom(derived, a, origin) :
            \A o \in HeldFrom(derived, a, origin) : d[3] <= o[3]

\* ------------------------------------------------------------- queries.mjs
\* faulty variant: a copy is created whether or not the actor already holds one
CreateDerived_unchecked(D, a, origin) ==
    IF a = Undefined \/ Cardinality(HeldFrom(D, a, origin)) >= MaxDup THEN D
    ELSE D \cup {<<origin, a, Cardinality(HeldFrom(D, a, origin)) + 1>>}

\* one derived copy of origin on actor a, unless a already holds one
CreateDerived(D, a, origin) ==
    IF a = Undefined \/ HeldFrom(D, a, origin) # {} THEN D
    ELSE D \cup {<<origin, a, 1>>}

\* applyEffect({effectData, actorUuids})
applyEffect(D, origin, actorUuids) ==
    D \cup UNION {CreateDerived(D, a, origin) : a \in actorUuids}

\* deleteEffects({effectUuids})
deleteEffects(D, effectUuids) == D \ effectUuids

RECURSIVE applyAuraEffects(_, _, _)
\* applyAuraEffects({[actorUuid]: effectUuids})
applyAuraEffects(D, actorUuid, effectUuids) ==
    IF effectUuids = <<>> THEN D
    ELSE applyAuraEffects(CreateDerived(D, actorUuid, Head(effectUuids)),
                          actorUuid, Tail(effectUuids))

\* deleteAuraEffects({[actorUuid]: effectUuids})
deleteAuraEffects(D, actorUuid, effectUuids) ==
    {d \in D : ~(d[2] = actorUuid /\ d[1] \in SeqToSet(effectUuids))}

\* ------------------------------------------------------------- updateToken
Idle == [pc |-> "idle", ready |-> FALSE, user |-> None, token |-> None,
         gm |-> None, preKeys |-> {}, pre |-> [e \in AuraEffects |-> {}],
         idx |-> 0, post |-> {}, bAdd |-> <<>>, last |-> <<None, None>>,
         again |-> FALSE, err |-> None]

\* the handler's promise is rejected: the invocation is over, with error err
Thrown(r, err) ==
    [Idle EXCEPT !.pc = "failed", !.err = err, !.last = r.last]

\* activeGM.query(kind, payload), sent to the user `to`
Query(i, to, kind, uuids, origin, actors, actor, auras) ==
    [inv |-> i, to |-> to, kind |-> kind, uuids |-> uuids, origin |-> origin,
     actors |-> actors, actor |-> actor, auras |-> auras]

\* new Set(getNearbyTokens(token, radius, {disposition}).map(t => t.actor))
NearbyActors(token, e) ==
    {ActorOf(t) : t \in getNearbyTokens(token, System(e).distance,
                                        System(e).disposition)}

\* lines 35-40: the pre-move range of every source effect with a radius
PreMoveKeys(token) ==
    {e \in SeqToSet(SourceEffects(ActorOf(token))) : System(e).distance # 0}

PreMoveRanges(token) ==
    [e \in AuraEffects |->
        IF e \in PreMoveKeys(token) THEN NearbyActors(token, e) ELSE {}]

\* faulty variant: nothing is requested when an actor that left holds no copy
ToDelete_allOrNothing(preMoveRange, postMoveRange, e) ==
    IF \E a \in preMoveRange \ postMoveRange : FindDerived(a, e) = NoUuid
    THEN {}
    ELSE {FindDerived(a, e) : a \in preMoveRange \ postMoveRange}

\* line 54: the derived effects of the actors that left the range
ToDelete(preMoveRange, postMoveRange, e) ==
    {FindDerived(a, e) : a \in preMoveRange \ postMoveRange}

\* faulty variant: the mover's own actor is not filtered out
ToAddTo_withSelf(token, postMoveRange, e) ==
    {a \in postMoveRange : FindDerived(a, e) = NoUuid}

\* line 57: the actors in range, but the mover's own, that hold no copy yet
ToAddTo(token, postMoveRange, e) ==
    {IF a = NoActor THEN Undefined ELSE a :
        a \in {b \in postMoveRange :
                    b # ActorOf(token) /\ FindDerived(b, e) = NoUuid}}

\* faulty variant: a hostile token makes the pair enemies
EffectiveDisposition_hostile(tokenDisposition, sourceDisposition) ==
    IF tokenDisposition = -1 \/ sourceDisposition = -1 THEN -1
    ELSE tokenDisposition * sourceDisposition

\* line 67: -1 if enemies, 0 if at least one is neutral, 1 if allied
EffectiveDisposition(tokenDisposition, sourceDisposition) ==
    tokenDisposition * sourceDisposition

\* lines 67-70: the source token's auras that match the two dispositions
AuraEffectsFor(token, sourceToken) ==
    LET disposition == EffectiveDisposition(TokenDisposition(token),
                                            TokenDisposition(sourceToken))
        matches(e) == \/ System(e).disposition = 0
                      \/ System(e).disposition = disposition
    IN SelectSeq(SourceEffects(ActorOf(sourceToken)), matches)

\* faulty variant: an aura at a distance equal to its radius is removed
RECURSIVE SplitByDistance_exclusive(_, _, _, _)
SplitByDistance_exclusive(token, sourceToken, auraEffects, acc) ==
    IF auraEffects = <<>> THEN acc
    ELSE LET currEffect == Head(auraEffects)
             distance == getTokenToTokenDistance(token, sourceToken)
             next == IF System(currEffect).distance <= distance
                     THEN [acc EXCEPT !.toRemove = Append(@, currEffect)]
                     ELSE [acc EXCEPT !.toAdd = Append(@, currEffect)]
         IN SplitByDistance_exclusive(token, sourceToken, Tail(auraEffects),
                                      next)

\* lines 73-77: split one source token's auras by distance
RECURSIVE SplitByDistance(_, _, _, _)
SplitByDistance(token, sourceToken, auraEffects, acc) ==
    IF auraEffects = <<>> THEN acc
    ELSE LET currEffect == Head(auraEffects)
             distance == getTokenToTokenDistance(token, sourceToken)
             next == IF System(currEffect).distance < distance
                     THEN [acc EXCEPT !.toRemove = Append(@, currEffect)]
                     ELSE [acc EXCEPT !.toAdd = Append(@, currEffect)]
         IN SplitByDistance(token, sourceToken, Tail(auraEffects), next)

\* lines 63-85: token.parent.tokens.reduce(...)
RECURSIVE SceneAuras(_, _, _)
SceneAuras(token, k, acc) ==
    IF k > Len(SceneTokens) THEN acc
    ELSE LET sourceToken == SceneTokens[k]
         IN IF ActorOf(sourceToken) = ActorOf(token)
            THEN SceneAuras(token, k + 1, acc)
            ELSE IF ActorOf(sourceToken) = NoActor
            THEN \* line 68: sourceToken.actor is null, .appliedEffects throws
                 [acc EXCEPT !.threw = TRUE]
            ELSE SceneAuras(token, k + 1,
                    SplitByDistance(token, sourceToken,
                                    AuraEffectsFor(token, sourceToken), acc))


\* lines 91-93: the addition batch, on the final segment only
PassBAdd(i, r) ==
    IF Len(r.bAdd) > 0 /\ isFinalMovementComplete(r.token)
    THEN [r |-> [r EXCEPT !.pc = "B_add", !.ready = FALSE],
          out |-> {Query(i, r.gm, "auras.applyAuraEffects", {}, None, {},
                         ActorOf(r.token), r.bAdd)}]
    ELSE [r |-> Idle, out |-> {}]

\* lines 63-90: scan the scene, then the removal batch
PassB(i, r) ==
    LET scene == SceneAuras(r.token, 1,
                            [toRemove |-> <<>>, toAdd |-> <<>>, threw |-> FALSE])
        rB == [r EXCEPT !.bAdd = scene.toAdd, !.post = {}, !.idx = 0]
    IN IF scene.threw THEN [r |-> Thrown(r, "noActor"), out |-> {}]
       ELSE IF Len(scene.toRemove) > 0
       THEN [r |-> [rB EXCEPT !.pc = "B_del", !.ready = FALSE],
             out |-> {Query(i, r.gm, "auras.deleteAuraEffects", {}, None, {},
                            ActorOf(r.token), scene.toRemove)}]
       ELSE PassBAdd(i, rB)

\* faulty variant: the deletion is left to the final segment, like the addition
RECURSIVE PassA_deferred(_, _, _)
PassA_deferred(i, r, k) ==
    LET sourceEffects == SourceEffects(ActorOf(r.token))
    IN IF k > Len(sourceEffects) THEN PassB(i, r)
       ELSE LET effect == sourceEffects[k]
                postMoveRange == NearbyActors(r.token, effect)
            IN IF System(effect).distance = 0
                  \/ ~isFinalMovementComplete(r.token)
               THEN PassA_deferred(i, r, k + 1)
               ELSE [r |-> [r EXCEPT !.pc = "A_del", !.ready = FALSE,
                                     !.idx = k, !.post = postMoveRange],
                     out |-> {Query(i, r.gm, "auras.deleteEffects",
                                    ToDelete(r.pre[effect], postMoveRange, effect),
                                    effect, {}, None, <<>>)}]

\* faulty variant: the deletion is not awaited, the addition goes out with it
RECURSIVE PassA_noAwait(_, _, _)
PassA_noAwait(i, r, k) ==
    LET sourceEffects == SourceEffects(ActorOf(r.token))
    IN IF k > Len(sourceEffects) THEN PassB(i, r)
       ELSE LET effect == sourceEffects[k]
                postMoveRange == NearbyActors(r.token, effect)
            IN IF System(effect).distance = 0 THEN PassA_noAwait(i, r, k + 1)
               ELSE [r |-> [r EXCEPT !.pc = "A_add", !.ready = FALSE,
                                     !.idx = k, !.post = postMoveRange],
                     out |-> {Query(i, r.gm, "auras.deleteEffects",
                                    ToDelete(r.pre[effect], postMoveRange, effect),
                                    effect, {}, None, <<>>),
                              Query(i, r.gm, "auras.applyEffect", {}, effect,
                                    ToAddTo(r.token, postMoveRange, effect),
                                    None, <<>>)}]

\* lines 45-55: the loop over sourceEffects from index k, up to the next await
RECURSIVE PassA(_, _, _)
PassA(i, r, k) ==
    LET sourceEffects == SourceEffects(ActorOf(r.token))
    IN IF k > Len(sourceEffects) THEN PassB(i, r)
       ELSE LET effect == sourceEffects[k]
                postMoveRange == NearbyActors(r.token, effect)
            IN IF System(effect).distance = 0 THEN PassA(i, r, k + 1)
               ELSE IF effect \notin r.preKeys
               THEN \* line 54: preMoveRange is undefined, .difference throws
                    [r |-> Thrown(r, "noSnapshot"), out |-> {}]
               ELSE IF NoActor \in r.pre[effect] \ postMoveRange
               THEN \* line 54: a is null, a.effects throws
                    [r |-> Thrown(r, "noActor"), out |-> {}]
               ELSE [r |-> [r EXCEPT !.pc = "A_del", !.ready = FALSE,
                                     !.idx = k, !.post = postMoveRange],
                     out |-> {Query(i, r.gm, "auras.deleteEffects",
                                    ToDelete(r.pre[effect], postMoveRange, effect),
                                    effect, {}, None, <<>>)}]

\* faulty variant: the addition is requested on every segment
AfterDelete_everySegment(i, r) ==
    LET effect == SourceEffects(ActorOf(r.token))[r.idx]
    IN [r |-> [r EXCEPT !.pc = "A_add", !.ready = FALSE],
        out |-> {Query(i, r.gm, "auras.applyEffect", {}, effect,
                       ToAddTo(r.token, r.post, effect), None, <<>>)}]

\* lines 56-59: after the deletion is acknowledged
AfterDelete(i, r) ==
    LET effect == SourceEffects(ActorOf(r.token))[r.idx]
    IN IF isFinalMovementComplete(r.token)
       THEN [r |-> [r EXCEPT !.pc = "A_add", !.ready = FALSE],
             out |-> {Query(i, r.gm, "auras.applyEffect", {}, effect,
                            ToAddTo(r.token, r.post, effect), None, <<>>)}]
       ELSE PassA(i, r, r.idx + 1)

\* the handler from the await that has just resolved to the next one
Continuation(i, r) ==
    CASE r.pc = "anim"  -> PassA(i, r, 1)
      [] r.pc = "A_del" -> AfterDelete(i, r)
      [] r.pc = "A_add" -> PassA(i, r, r.idx + 1)
      [] r.pc = "B_del" -> PassBAdd(i, r)
      [] OTHER          -> [r |-> Idle, out |-> {}]

\* lines 19-41: the handler's synchronous part
FreeSlots == {i \in Invs : inv[i].pc \in {"idle", "failed"}}

\* nothing is in progress: no handler, no query, no animation
Quiescent == FreeSlots = Invs /\ net = {} /\ pos = dest

\* the call repeats the handler on the token it last completed on, whose
\* movement was complete, with nothing in progress and no token moved since
Repeats(token, x) ==
    /\ Quiescent
    /\ lastDone = token
    /\ isFinalMovementComplete(token)
    /\ x = dest[token]

\* the value read from `updates` when the update carries no such key
Absent == -1

\* line 30: !updates.x
Falsy(v) == v = 0 \/ v = Absent

\* faulty variant: the latch is never set
WarnOnce_noLatch(userId) ==
    /\ seenWarning' = seenWarning
    /\ warnings' = IF seenWarning[userId] THEN warnings
                   ELSE [warnings EXCEPT ![userId] = @ + 1]

\* lines 23-26: warn unless the latch is set, and set it
WarnOnce(userId) ==
    /\ seenWarning' = [seenWarning EXCEPT ![userId] = TRUE]
    /\ warnings' = IF seenWarning[userId] THEN warnings
                   ELSE [warnings EXCEPT ![userId] = @ + 1]

updateToken(token, x, userId) ==
    IF activeGM = None
    THEN /\ WarnOnce(userId)
         /\ UNCHANGED inv
    ELSE /\ UNCHANGED <<seenWarning, warnings>>
         /\ IF ActorOf(token) = NoActor \/ Falsy(x) THEN UNCHANGED inv
            ELSE /\ FreeSlots # {}
                 /\ LET i == CHOOSE j \in FreeSlots :
                                 \A o \in FreeSlots : j <= o
                    IN inv' = [inv EXCEPT ![i] =
                         [Idle EXCEPT !.pc = "anim", !.user = userId,
                                      !.token = token, !.gm = activeGM,
                                      !.preKeys = PreMoveKeys(token),
                                      !.pre = PreMoveRanges(token),
                                      !.again = Repeats(token, x)]]

\* faulty variant: the handler does not return on the clients of other users
Hook_everyClient(client, token, x, userId) ==
    updateToken(token, x, client)

\* lines 19-20: the hook runs on every user's client; `client` is game.user.id
Hook(client, token, x, userId) ==
    IF client # userId
    THEN UNCHANGED <<seenWarning, warnings, inv>>
    ELSE updateToken(token, x, client)

\* the hook calls the update will make on the clients of the other users
Calls(token, x, userId) ==
    {[no |-> nMoves + 1, client |-> c, token |-> token, x |-> x,
      userId |-> userId] : c \in Users \ {userId}}

\* ------------------------------------------------------------- actions
\* continuations that run before any other event is handled
Microtasks == {i \in Invs : inv[i].ready /\ inv[i].pc = "anim"}

\* a user starts a movement of n segments; its first update is accepted
StartMove(u, t, x, n) ==
    /\ Microtasks = {}
    /\ hooks = {}
    /\ nMoves < MaxMoves
    /\ isFinalMovementComplete(t)
    /\ pos[t] = dest[t]
    /\ dest' = [dest EXCEPT ![t] = x]
    /\ movement' = [movement EXCEPT ![t] = [no |-> 1, of |-> n]]
    /\ mover' = [mover EXCEPT ![t] = IF n > 1 THEN u ELSE None]
    /\ nMoves' = nMoves + 1
    /\ Hook(u, t, x, u)
    /\ hooks' = hooks \cup Calls(t, x, u)
    /\ lastDone' = IF x = dest[t] THEN lastDone ELSE None
    /\ UNCHANGED <<pos, derived, activeGM, net, nGMChanges, sceneVars, sheetVars>>

\* the next segment of a movement, once the previous one has been animated
ContinueMove(t, x) ==
    /\ Microtasks = {}
    /\ hooks = {}
    /\ nMoves < MaxMoves
    /\ ~isFinalMovementComplete(t)
    /\ pos[t] = dest[t]
    /\ \A i \in Invs : ~(inv[i].pc = "anim" /\ inv[i].token = t)
    /\ dest' = [dest EXCEPT ![t] = x]
    /\ movement' = [movement EXCEPT ![t].no = @ + 1]
    /\ nMoves' = nMoves + 1
    /\ mover' = [mover EXCEPT ![t] =
                    IF movement[t].no + 1 < movement[t].of THEN @ ELSE None]
    /\ Hook(mover[t], t, x, mover[t])
    /\ hooks' = hooks \cup Calls(t, x, mover[t])
    /\ lastDone' = IF x = dest[t] THEN lastDone ELSE None
    /\ UNCHANGED <<pos, derived, activeGM, net, nGMChanges, sceneVars, sheetVars>>

\* a user updates a token without changing its position (x, y or elevation)
UpdateOther(u, t) ==
    /\ Microtasks = {}
    /\ hooks = {}
    /\ nMoves < MaxMoves
    /\ nMoves' = nMoves + 1
    /\ Hook(u, t, Absent, u)
    /\ hooks' = hooks \cup Calls(t, Absent, u)
    /\ UNCHANGED <<pos, dest, movement, mover, derived, activeGM, net,
                   nGMChanges, lastDone, sceneVars, sheetVars>>

\* the hook call of an update runs on the client of another user, as the
\* update reaches it
Deliver(h) ==
    /\ Hook(h.client, h.token, h.x, h.userId)
    /\ hooks' = hooks \ {h}
    /\ UNCHANGED <<pos, dest, movement, mover, derived, activeGM, net, nMoves,
                   nGMChanges, lastDone, sceneVars, sheetVars>>

\* token.object.movementAnimationPromise resolves
Settle(t) ==
    /\ Microtasks = {}
    /\ hooks = {}
    /\ \/ pos[t] # dest[t]
       \/ \E i \in Invs : inv[i].pc = "anim" /\ inv[i].token = t
    /\ pos' = [pos EXCEPT ![t] = dest[t]]
    /\ inv' = [i \in Invs |->
                IF inv[i].pc = "anim" /\ inv[i].token = t
                THEN [inv[i] EXCEPT !.ready = TRUE] ELSE inv[i]]
    /\ UNCHANGED <<dest, movement, mover, derived, activeGM, seenWarning,
                   warnings, net, nMoves, nGMChanges, lastDone,
                   hooks, sceneVars, sheetVars>>

\* the handler runs on from a resolved await to its next await or its end
Resume(i) ==
    /\ hooks = {}
    /\ inv[i].ready
    /\ LET c == Continuation(i, inv[i])
       IN /\ inv' = [inv EXCEPT ![i] = c.r]
          /\ net' = net \cup c.out
          /\ lastDone' = CASE c.r = Idle -> inv[i].token
                           [] c.r.pc = "failed" -> None
                           [] OTHER -> lastDone
    /\ UNCHANGED <<pos, dest, movement, mover, derived, activeGM, seenWarning,
                   warnings, nMoves, nGMChanges,
                   hooks, sceneVars, sheetVars>>

\* what the query handler of the addressed user does to the effects
Applied(m) ==
    CASE m.kind = "auras.deleteEffects" -> deleteEffects(derived, m.uuids)
      [] m.kind = "auras.applyEffect" -> applyEffect(derived, m.origin, m.actors)
      [] m.kind = "auras.deleteAuraEffects" ->
            deleteAuraEffects(derived, m.actor, m.auras)
      [] OTHER -> applyAuraEffects(derived, m.actor, m.auras)

\* the addressed user runs the query and the caller's await resolves
Serve(m) ==
    /\ Microtasks = {}
    /\ hooks = {}
    /\ derived' = Applied(m)
    /\ net' = net \ {m}
    /\ inv' = [inv EXCEPT ![m.inv] =
                [@ EXCEPT !.ready = TRUE, !.last = <<m.kind, m.origin>>]]
    /\ UNCHANGED <<pos, dest, movement, mover, activeGM, seenWarning, warnings,
                   nMoves, nGMChanges, lastDone,
                   hooks, sceneVars, sheetVars>>

\* faulty variant: the rejected query is sent again, to the present active GM
Reject_retry(m) ==
    /\ Microtasks = {}
    /\ hooks = {}
    /\ m.to # activeGM
    /\ net' = (net \ {m}) \cup {[m EXCEPT !.to = activeGM]}
    /\ inv' = inv
    /\ lastDone' = None
    /\ UNCHANGED <<pos, dest, movement, mover, derived, activeGM, seenWarning,
                   warnings, nMoves, nGMChanges, hooks, sceneVars, sheetVars>>

\* the addressed user is no longer there: the query rejects, the handler throws
Reject(m) ==
    /\ Microtasks = {}
    /\ hooks = {}
    /\ m.to # activeGM
    /\ net' = {o \in net : o.inv # m.inv}
    /\ inv' = [inv EXCEPT ![m.inv] = Thrown(@, "rejected")]
    /\ lastDone' = None
    /\ UNCHANGED <<pos, dest, movement, mover, derived, activeGM, seenWarning,
                   warnings, nMoves, nGMChanges,
                   hooks, sceneVars, sheetVars>>

\* another user, or nobody, becomes the active GM
GMChange(g) ==
    /\ Microtasks = {}
    /\ hooks = {}
    /\ nGMChanges < MaxGMChanges
    /\ g # activeGM
    /\ activeGM' = g
    /\ nGMChanges' = nGMChanges + 1
    /\ UNCHANGED <<pos, dest, movement, mover, derived, seenWarning, warnings,
                   inv, net, nMoves, lastDone,
                   hooks, sceneVars, sheetVars>>

\* the handler's state once the module is loaded
Loaded ==
    /\ movement = [t \in Tokens |-> [no |-> 0, of |-> 0]]
    /\ mover = [t \in Tokens |-> None]
    /\ activeGM \in {"u1", None}
    /\ seenWarning = [u \in Users |-> FALSE]
    /\ warnings = [u \in Users |-> 0]
    /\ inv = [i \in Invs |-> Idle]
    /\ net = {}
    /\ nMoves = 0
    /\ nGMChanges = 0
    /\ lastDone = None
    /\ hooks = {}

\* t2 stands apart from t1 and t3; there are no derived effects yet
Apart ==
    /\ pos = [t \in Tokens |-> IF t = "t2" THEN MaxPos ELSE 0]
    /\ dest = pos
    /\ derived = {}

\* t1 and t3 are linked tokens of one actor; e3 has a zero radius
LinkedScene ==
    /\ tokenActor = [t \in Tokens |-> IF t = "t2" THEN "a2" ELSE "a1"]
    /\ auraRadius = StartRadius

\* no configuration sheet is in use
NoSheet ==
    /\ docType = [d \in Docs |-> "base"]
    /\ docFlag = [d \in Docs |-> Undefined]
    /\ docWas = [d \in Docs |-> <<>>]
    /\ effectType = [d \in Docs |-> None]
    /\ tokDisp = [p \in Pair |-> 0]
    /\ effDisp = [p \in Pair |-> {}]

Init == Loaded /\ Apart /\ LinkedScene /\ NoSheet

Next ==
    \/ \E u \in Users, t \in Tokens, x \in 0..MaxPos, n \in 1..MaxSegs :
            StartMove(u, t, x, n)
    \/ \E t \in Tokens, x \in 0..MaxPos : ContinueMove(t, x)
    \/ \E u \in Users, t \in Tokens : UpdateOther(u, t)
    \/ \E h \in hooks : Deliver(h)
    \/ \E t \in Tokens : Settle(t)
    \/ \E i \in Invs : Resume(i)
    \/ \E m \in net : Serve(m)
    \/ \E m \in net : Reject(m)
    \/ \E g \in Users \cup {None} : GMChange(g)

Spec == Init /\ [][Next]_vars

\* ------------------------------------------------- edits of an aura
\* a user gives a radius to aura source effect e, which had none, while a
\* handler of a token of e's actor waits for the movement animation
SetRadius(e, d) ==
    /\ Microtasks = {}
    /\ hooks = {}
    /\ auraRadius[e] = 0
    /\ \E i \in Invs :
            inv[i].pc = "anim" /\ ActorOf(inv[i].token) = OwnerOf(e)
    /\ Cardinality({o \in AuraEffects : auraRadius[o] # StartRadius[o]})
            < MaxEdits
    /\ auraRadius' = [auraRadius EXCEPT ![e] = d]
    /\ UNCHANGED <<handlerVars, tokenActor, sheetVars>>

InitRadius ==
    /\ Loaded
    /\ activeGM = "u1"
    /\ Apart
    /\ LinkedScene
    /\ NoSheet

NextRadius ==
    \/ Next
    \/ \E e \in AuraEffects, d \in 1..MaxRadius : SetRadius(e, d)

SpecRadius == InitRadius /\ [][NextRadius]_vars

\* --------------------------------------------- a scene of three actors
\* t3 has an actor of its own, a3. t1 and t3 stand within the radius of t2's
\* auras; a1 holds the derived effects of e2 and e4, a3 holds none
InitThreeActors ==
    /\ Loaded
    /\ activeGM = "u1"
    /\ pos = [t \in Tokens |-> IF t = "t2" THEN 1 ELSE 0]
    /\ dest = pos
    /\ derived = {<<"e2", "a1", 1>>, <<"e4", "a1", 1>>}
    /\ tokenActor = [t \in Tokens |->
                        CASE t = "t1" -> "a1" [] t = "t2" -> "a2" [] OTHER -> "a3"]
    /\ auraRadius = StartRadius
    /\ NoSheet

SpecThreeActors == InitThreeActors /\ [][Next]_vars

\* ------------------------------------------ a token that has no actor
\* t3 has no actor
InitNoActor ==
    /\ Loaded
    /\ activeGM = "u1"
    /\ Apart
    /\ tokenActor = [t \in Tokens |->
                        CASE t = "t1" -> "a1" [] t = "t2" -> "a2" [] OTHER -> NoActor]
    /\ auraRadius = StartRadius
    /\ NoSheet

SpecNoActor == InitNoActor /\ [][Next]_vars

\* ------------------------------------------- the sheet and the disposition
AuraType == "auras.aura"
Types == {"base", "custom", AuraType}
Dispositions == {-1, 0, 1}

\* lines 51, 113: getFlag("auras", "originalType") ?? "base"
OriginalType(flag) == IF flag = Undefined THEN "base" ELSE flag

\* faulty variant: the type the effect had is not stored
Toggled_noStash(currType, flag) ==
    IF currType = AuraType
    THEN [type |-> OriginalType(flag), flag |-> Undefined]
    ELSE [type |-> AuraType, flag |-> Undefined]

\* lines 112-118: the type and the flag the change listener writes
Toggled(currType, flag) ==
    IF currType = AuraType
    THEN [type |-> OriginalType(flag), flag |-> Undefined]
    ELSE [type |-> AuraType, flag |-> currType]

\* lines 109-120: the checkbox of document d's sheet is changed
injectAuraCheckbox(d) ==
    /\ Len(docWas[d]) < MaxToggles
    /\ LET updates == Toggled(docType[d], docFlag[d])
       IN /\ docType' = [docType EXCEPT ![d] = updates.type]
          /\ docFlag' = [docFlag EXCEPT ![d] = updates.flag]
    /\ docWas' = [docWas EXCEPT ![d] = Append(@, docType[d])]
    /\ UNCHANGED <<handlerVars, sceneVars, effectType, tokDisp, effDisp>>

\* lines 49-52: the effect data of the derived effect of aura document d
EffectData(d) ==
    /\ docType[d] = AuraType
    /\ effectType' = [effectType EXCEPT ![d] = OriginalType(docFlag[d])]
    /\ UNCHANGED <<handlerVars, sceneVars, docType, docFlag, docWas, tokDisp,
                   effDisp>>

\* line 67: Pass B for the token p of the pair, against the other one
ScanPair(p) ==
    /\ effDisp[p] = {}
    /\ LET sourceToken == CHOOSE q \in Pair : q # p
       IN effDisp' = [effDisp EXCEPT
             ![p] = {EffectiveDisposition(tokDisp[p], tokDisp[sourceToken])}]
    /\ UNCHANGED <<handlerVars, sceneVars, docType, docFlag, docWas,
                   effectType, tokDisp>>

\* documents of any type, the aura type among them, and tokens of any
\* disposition
InitSheet ==
    /\ Loaded
    /\ activeGM = "u1"
    /\ Apart
    /\ LinkedScene
    /\ docType \in [Docs -> Types]
    /\ docFlag = [d \in Docs |-> Undefined]
    /\ docWas = [d \in Docs |-> <<>>]
    /\ effectType = [d \in Docs |-> None]
    /\ tokDisp \in [Pair -> Dispositions]
    /\ effDisp = [p \in Pair |-> {}]

NextSheet ==
    \/ \E d \in Docs : injectAuraCheckbox(d)
    \/ \E d \in Docs : EffectData(d)
    \/ \E p \in Pair : ScanPair(p)

SpecSheet == InitSheet /\ [][NextSheet]_vars

\* ------------------------------------------------------------- claims
AddKinds == {"auras.applyEffect", "auras.applyAuraEffects"}

C2_NoAuthority ==
    [][/\ \A u \in Users : seenWarning[u] => seenWarning'[u]
       /\ \A u \in Users : warnings'[u] <= 1
       /\ activeGM # None => warnings' = warnings
       /\ (activeGM = None /\ nMoves' # nMoves) =>
            /\ net' = net
            /\ inv' = inv
            /\ \E u \in Users :
                /\ seenWarning' = [seenWarning EXCEPT ![u] = TRUE]
                /\ warnings' = [warnings EXCEPT
                                  ![u] = IF seenWarning[u] THEN @ ELSE @ + 1]
      ]_vars

\* two handler calls of one user with no GM ever present: one warning in all
C2_Witness ==
    /\ activeGM = None
    /\ nGMChanges = 0
    /\ nMoves = 2
    /\ \E u \in Users :
        warnings[u] = 1 /\ \A v \in Users \ {u} : warnings[v] = 0

\* C3: every query is addressed to the user who is the active GM when it is
\* dispatched.
C3_AddressedToAuthority ==
    [][\A m \in net' \ net : m.to = activeGM]_vars

\* C4: an addition request (applyEffect, applyAuraEffects) is dispatched only
\* while the token's movement is at its final segment.
C4_AdditionsOnFinalSegment ==
    [][\A m \in net' \ net :
          m.kind \in AddKinds =>
            movement[inv'[m.inv].token].no = movement[inv'[m.inv].token].of
      ]_vars

\* an addition request in flight for a token whose movement had several segments
C4_Witness ==
    \E m \in net :
        /\ m.kind \in AddKinds
        /\ movement[inv[m.inv].token].of > 1

\* the derived effects of the actors that were in range of e before the move of
\* invocation i and are not in range now
Left(i, e) ==
    {FindDerived(a, e) :
        a \in inv[i].pre[e] \ NearbyActors(inv[i].token, e)} \ {NoUuid}

\* the auras of other actors' tokens that match the dispositions and are
\* farther from t than their radius
OutOfRange(t) ==
    {e \in AuraEffects :
        \E s \in Tokens :
            /\ ActorOf(s) # ActorOf(t)
            /\ OwnerOf(e) = ActorOf(s)
            /\ \/ System(e).disposition = 0
               \/ System(e).disposition
                    = TokenDisposition(t) * TokenDisposition(s)
            /\ System(e).distance < getTokenToTokenDistance(t, s)}

\* C5: on every segment, final or not, the invocation that moves on to an aura
\* with a radius requests the deletion of the derived effect of every actor
\* that left its range, and the invocation that moves on to the scene scan
\* requests the removal of every out-of-range aura from the moving actor.
C5_RemovalsNeverDeferred ==
    [][\A i \in Invs :
        (/\ inv[i].ready
         /\ inv'[i] # inv[i]
         /\ \/ inv[i].pc \in {"anim", "A_add"}
            \/ inv[i].pc = "A_del"
               /\ movement[inv[i].token].no # movement[inv[i].token].of) =>
          LET t == inv[i].token
              src == SourceEffects(ActorOf(t))
              from == IF inv[i].pc = "anim" THEN 0 ELSE inv[i].idx
              keys == {j \in (from + 1)..Len(src) : System(src[j]).distance # 0}
              sent == {m \in net' \ net : m.inv = i}
          IN IF keys # {}
             THEN LET j == CHOOSE k \in keys : \A o \in keys : k <= o
                  IN \E m \in sent :
                        /\ m.kind = "auras.deleteEffects"
                        /\ m.origin = src[j]
                        /\ Left(i, src[j]) \subseteq m.uuids
             ELSE OutOfRange(t) # {} =>
                    \E m \in sent :
                        /\ m.kind = "auras.deleteAuraEffects"
                        /\ m.actor = ActorOf(t)
                        /\ OutOfRange(t) \subseteq SeqToSet(m.auras)
      ]_vars

\* a deletion request that names a derived effect, dispatched on a segment
\* that is not the movement's last
C5_Witness ==
    \E m \in net :
        /\ m.kind = "auras.deleteEffects"
        /\ m.uuids \ {NoUuid} # {}
        /\ movement[inv[m.inv].token].no < movement[inv[m.inv].token].of

\* C6: an invocation has at most one query outstanding and is suspended on it;
\* the addition for an aura goes out after that aura's deletion was
\* acknowledged, the addition batch after the removal batch (if any) was
\* acknowledged, and no deletion follows the matching addition.
C6_Sequential ==
    [][/\ \A i \in Invs : Cardinality({m \in net' : m.inv = i}) <= 1
       /\ \A m \in net' \ net :
            LET r == inv[m.inv]
            IN /\ ~inv'[m.inv].ready
               /\ m.kind = "auras.applyEffect" =>
                    r.last = <<"auras.deleteEffects", m.origin>>
               /\ m.kind = "auras.deleteEffects" =>
                    r.last # <<"auras.applyEffect", m.origin>>
               /\ m.kind = "auras.applyAuraEffects" =>
                    \/ r.last[1] = "auras.deleteAuraEffects"
                    \/ OutOfRange(r.token) = {}
               /\ m.kind = "auras.deleteAuraEffects" =>
                    r.last[1] # "auras.applyAuraEffects"
      ]_vars

\* an addition request in flight after the acknowledged deletion of its aura
C6_Witness ==
    \E m \in net :
        /\ m.kind = "auras.applyEffect"
        /\ inv[m.inv].last = <<"auras.deleteEffects", m.origin>>
        /\ m.actors # {}

\* C7: no addition request names the actor that carries the aura as the
\* target of that aura's derived effect.
C7_SelfExclusion ==
    \A m \in net :
        /\ m.kind = "auras.applyEffect" => OwnerOf(m.origin) \notin m.actors
        /\ m.kind = "auras.applyAuraEffects" =>
                \A e \in SeqToSet(m.auras) : OwnerOf(e) # m.actor

\* an addition request of a move that left the mover's own actor in range
C7_Witness ==
    \E m \in net :
        /\ m.kind = "auras.applyEffect"
        /\ m.actors # {}
        /\ ActorOf(inv[m.inv].token) \in inv[m.inv].post

\* C8: no addition request names an aura source effect with a zero radius.
C8_ZeroRadiusInert ==
    \A m \in net :
        /\ m.kind = "auras.applyEffect" => System(m.origin).distance # 0
        /\ m.kind = "auras.applyAuraEffects" =>
                \A e \in SeqToSet(m.auras) : System(e).distance # 0

\* C9: an invocation that repeats the handler on the token it last completed
\* on, with nothing in progress and no token moved, dispatches no query; the
\* queries counted here are those that name an effect, an actor or an aura.
C9_Idempotent ==
    \A m \in net :
        inv[m.inv].again =>
            m.uuids \ {NoUuid} = {} /\ m.actors = {} /\ m.auras = <<>>

\* C10: the addition batch of Pass B names no aura of which the moving actor
\* already holds the derived effect when the batch is dispatched.
C10_NoDuplicateRequest ==
    [][\A m \in net' \ net :
          m.kind = "auras.applyAuraEffects" =>
            \A e \in SeqToSet(m.auras) : HeldFrom(derived, m.actor, e) = {}
      ]_vars

\* C11: an update that changes a token's position while an active GM is present
\* and the token has an actor starts the reconciliation of that token, also
\* when the new value is 0; an update that carries no position dispatches
\* nothing and starts nothing.
C11_PositionChangeReconciles ==
    [][/\ \A t \in Tokens :
            (dest'[t] # dest[t] /\ activeGM # None /\ ActorOf(t) # NoActor) =>
                \E i \in Invs :
                    /\ inv'[i] # inv[i]
                    /\ inv'[i].pc = "anim"
                    /\ inv'[i].token = t
       /\ \A h \in hooks' \ hooks :
            h.x = Absent => net' = net /\ inv' = inv
      ]_vars

\* C12: the hook call on the client of a user who did not initiate the update
\* dispatches nothing, starts nothing, warns nobody and leaves every latch as
\* it was; in the step of the update itself only the initiating user's client
\* warns, sets its latch or starts an invocation.
C12_OnlyInitiator ==
    [][/\ \A h \in hooks \ hooks' :
            /\ net' = net
            /\ inv' = inv
            /\ warnings' = warnings
            /\ seenWarning' = seenWarning
       /\ \A h \in hooks' \ hooks :
            /\ \A c \in Users \ {h.userId} :
                    warnings'[c] = warnings[c] /\ seenWarning'[c] = seenWarning[c]
            /\ \A i \in Invs : inv'[i] # inv[i] => inv'[i].user = h.userId
      ]_vars

\* every hook call has run on the other client; the one user who initiated
\* updates has a query in flight and has been warned once, the other user has
\* neither a warning nor a set latch
C12_Witness ==
    /\ hooks = {}
    /\ nMoves = MaxMoves
    /\ \E u \in Users :
        /\ warnings[u] = 1
        /\ \E m \in net : inv[m.inv].user = u
        /\ \A v \in Users \ {u} : warnings[v] = 0 /\ ~seenWarning[v]

\* the auras of other actors' tokens that match the dispositions and are no
\* farther from t than their radius
WithinRange(t) ==
    {e \in AuraEffects :
        \E s \in Tokens :
            /\ ActorOf(s) # ActorOf(t)
            /\ OwnerOf(e) = ActorOf(s)
            /\ \/ System(e).disposition = 0
               \/ System(e).disposition
                    = TokenDisposition(t) * TokenDisposition(s)
            /\ getTokenToTokenDistance(t, s) <= System(e).distance}

\* C13: in the step in which an invocation scans the scene (Pass B), the
\* removal batch holds exactly the matching auras of a token farther away than
\* the radius, and the addition batch holds exactly those of a token at a
\* distance up to and including the radius.
C13_InclusiveBoundary ==
    [][\A i \in Invs :
        (/\ inv[i].ready
         /\ inv'[i] # inv[i]
         /\ \/ inv[i].pc \in {"anim", "A_add"}
            \/ inv[i].pc = "A_del"
               /\ movement[inv[i].token].no # movement[inv[i].token].of
         /\ LET src == SourceEffects(ActorOf(inv[i].token))
                from == IF inv[i].pc = "anim" THEN 0 ELSE inv[i].idx
            IN \A j \in (from + 1)..Len(src) : System(src[j]).distance = 0) =>
          LET t == inv[i].token
              sent == {m \in net' \ net : m.inv = i}
              removals == {m \in sent : m.kind = "auras.deleteAuraEffects"}
              additions == {m \in sent : m.kind = "auras.applyAuraEffects"}
          IN /\ \A m \in removals : SeqToSet(m.auras) = OutOfRange(t)
             /\ OutOfRange(t) # {} => removals # {}
             /\ \A m \in additions : SeqToSet(m.auras) = WithinRange(t)
             /\ inv'[i].pc = "B_del" =>
                    SeqToSet(inv'[i].bAdd) = WithinRange(t)
             /\ (/\ WithinRange(t) # {}
                 /\ OutOfRange(t) = {}
                 /\ movement[t].no = movement[t].of) => additions # {}
      ]_vars

\* the addition batch in flight names an aura whose radius equals the
\* distance between the token that moved and every token of the aura's actor
C13_Witness ==
    /\ nMoves = 1
    /\ pos = dest
    /\ \E m \in net :
        /\ m.kind = "auras.applyAuraEffects"
        /\ \E e \in SeqToSet(m.auras) :
            /\ System(e).distance > 0
            /\ \A s \in Tokens :
                  ActorOf(s) = OwnerOf(e) =>
                    getTokenToTokenDistance(inv[m.inv].token, s)
                        = System(e).distance

\* the other token of the pair
Other(p) == CHOOSE q \in Pair : q # p

\* C14 as stated: for an enemy token (disposition -1) the computed disposition
\* is -1 against a token of disposition -1 and against one of disposition +1,
\* whichever of the two moved.
C14_EnemyTargetAlwaysHostile ==
    \A p \in Pair :
        (tokDisp[p] = -1 /\ tokDisp[Other(p)] \in {-1, 1}) =>
            effDisp[p] \subseteq {-1} /\ effDisp[Other(p)] \subseteq {-1}

\* C14, amended: for an enemy token (disposition -1) the computed disposition
\* is -1 against a token of disposition +1 and +1 against a token of
\* disposition -1; it is 0 when either token is neutral; and it is the same
\* whichever of the two tokens moved.
C14_DispositionSymmetry ==
    \A p \in Pair :
        /\ (tokDisp[p] = -1 /\ tokDisp[Other(p)] = 1) =>
                effDisp[p] \subseteq {-1} /\ effDisp[Other(p)] \subseteq {-1}
        /\ (tokDisp[p] = -1 /\ tokDisp[Other(p)] = -1) =>
                effDisp[p] \subseteq {1}
        /\ tokDisp[p] = 0 =>
                effDisp[p] \subseteq {0} /\ effDisp[Other(p)] \subseteq {0}
        /\ (effDisp[p] # {} /\ effDisp[Other(p)] # {}) =>
                effDisp[p] = effDisp[Other(p)]

\* both tokens are hostile and Pass B has run for either as the mover
C14_Witness ==
    /\ \A p \in Pair : tokDisp[p] = -1
    /\ \A p \in Pair : effDisp[p] = {1}

\* the type document d had before its last toggle, or the base type when d
\* was never toggled
TypeBefore(d) ==
    IF docWas[d] = <<>> THEN "base" ELSE docWas[d][Len(docWas[d])]

\* C15: a toggle of a document that is not an aura makes it an aura and stores
\* its type in the flag; a toggle of an aura removes the flag and restores the
\* type it had before it was toggled into an aura (the base type when it never
\* was); the second of two successive toggles gives back the type before the
\* first; the effect data derived from an aura has the type the document had
\* before it was toggled into an aura, or the base type.
C15_ToggleReversible ==
    [][\A d \in Docs :
        /\ docType'[d] # docType[d] =>
            /\ docType[d] # AuraType =>
                    docType'[d] = AuraType /\ docFlag'[d] = docType[d]
            /\ docType[d] = AuraType =>
                    docType'[d] = TypeBefore(d) /\ docFlag'[d] = Undefined
            /\ docWas[d] # <<>> => docType'[d] = TypeBefore(d)
        /\ effectType'[d] # effectType[d] =>
            /\ effectType'[d] = TypeBefore(d)
            /\ effectType'[d] # AuraType
      ]_vars

\* a document of a type other than the base type was toggled into an aura,
\* effect data was derived from it, and it was toggled back
C15_Witness ==
    \E d \in Docs :
        /\ docWas[d] = <<"custom", AuraType>>
        /\ docType[d] = "custom"
        /\ docFlag[d] = Undefined
        /\ effectType[d] = "custom"

\* C16: the addition request of Pass A for an aura names only actors that were
\* not in the aura's pre-move range and are in its post-move range.
C16_AddsOnlyNewcomers ==
    [][\A m \in net' \ net :
          m.kind = "auras.applyEffect" =>
            m.actors \subseteq
                inv'[m.inv].post \ inv'[m.inv].pre[m.origin]
      ]_vars

\* C17: when a query is rejected, the invocation that sent it ends with the
\* error, no query of it stays or is sent in that step, and the derived
\* effects are left as the earlier queries made them; an invocation that has
\* failed sends nothing.
C17_NoRetryNoRollback ==
    [][/\ \A m \in net \ net' :
            ~inv'[m.inv].ready =>
                /\ inv'[m.inv].pc = "failed"
                /\ inv'[m.inv].err = "rejected"
                /\ derived' = derived
                /\ net' \subseteq net
                /\ \A o \in net' : o.inv # m.inv
       /\ \A m \in net' \ net : inv[m.inv].pc # "failed"
      ]_vars

\* an invocation failed on a rejected query after its addition request for an
\* aura was applied, and the derived effect of that aura is still there
C17_Witness ==
    \E i \in Invs :
        /\ inv[i].pc = "failed"
        /\ inv[i].err = "rejected"
        /\ inv[i].last[1] = "auras.applyEffect"
        /\ \E d \in derived : d[1] = inv[i].last[2]

\* C18: the deletion request Pass A dispatches for an aura names, for every
\* actor that left the range, its derived effect of that aura when it holds
\* one and no effect of that actor when it holds none; the invocation goes on
\* to await the request.
C18_MissingEffectTolerated ==
    [][\A m \in net' \ net :
          m.kind = "auras.deleteEffects" =>
            /\ inv'[m.inv].pc = "A_del"
            /\ \A a \in inv'[m.inv].pre[m.origin] \ inv'[m.inv].post :
                    IF HeldFrom(derived, a, m.origin) = {}
                    THEN \A d \in m.uuids : d[2] # a
                    ELSE FindDerived(a, m.origin) \in m.uuids
      ]_vars

\* a deletion request in flight for an aura that two actors left: one held no
\* derived effect of it, the other's is named
C18_Witness ==
    \E m \in net :
        /\ m.kind = "auras.deleteEffects"
        /\ NoUuid \in m.uuids
        /\ m.uuids \ {NoUuid} # {}
        /\ inv[m.inv].pc = "A_del"

\* C19: an invocation that resumes after the animation has a pre-move
\* snapshot of every aura of the token's actor that has a radius by then, and
\* no invocation fails on reading a snapshot that was not taken.
C19_SnapshotPresent ==
    \A i \in Invs :
        /\ inv[i].err # "noSnapshot"
        /\ (inv[i].pc = "anim" /\ inv[i].ready) =>
              \A e \in SeqToSet(SourceEffects(ActorOf(inv[i].token))) :
                  System(e).distance # 0 => e \in inv[i].preKeys

\* invocation i goes on to the scan of the scene (Pass B) in this step
ScanStep(i) ==
    /\ inv[i].ready
    /\ inv'[i] # inv[i]
    /\ \/ inv[i].pc \in {"anim", "A_add"}
       \/ inv[i].pc = "A_del"
          /\ movement[inv[i].token].no # movement[inv[i].token].of
    /\ LET src == SourceEffects(ActorOf(inv[i].token))
           from == IF inv[i].pc = "anim" THEN 0 ELSE inv[i].idx
       IN \A j \in (from + 1)..Len(src) : System(src[j]).distance = 0

\* C20: with a token that has no actor on the scene, the invocation that
\* scans the scene does not fail, and it dispatches the removal batch owed for
\* the auras of the other tokens that are out of range, or else the addition
\* batch owed on the final segment for those in range.
C20_ActorlessTolerated ==
    [][\A i \in Invs :
        ScanStep(i) =>
          LET t == inv[i].token
              sent == {m \in net' \ net : m.inv = i}
          IN /\ inv'[i].pc # "failed"
             /\ OutOfRange(t) # {} =>
                    \E m \in sent :
                        /\ m.kind = "auras.deleteAuraEffects"
                        /\ OutOfRange(t) \subseteq SeqToSet(m.auras)
             /\ (/\ OutOfRange(t) = {}
                 /\ WithinRange(t) # {}
                 /\ movement[t].no = movement[t].of) =>
                    \E m \in sent :
                        /\ m.kind = "auras.applyAuraEffects"
                        /\ WithinRange(t) \subseteq SeqToSet(m.auras)
      ]_vars

====
